---- MODULE Spec2Model ----
(***************************************************************************)
(* rgrep: the search-and-format engine of src/src/main.rs.                 *)
(*                                                                         *)
(* The configuration is fixed by Init (the state after Config::from_args   *)
(* and Matcher::new).  main walks config.files; every call of              *)
(* search_stdin / search_bytes is one action that reads the source's bytes *)
(* from the environment, runs the whole line loop and leaves what it wrote *)
(* to its locked stdout handle in `handle` and its locals in `scan`.  The  *)
(* caller's next step folds the result into `found` and drops the locals.  *)
(***************************************************************************)
EXTENDS Integers, Sequences, FiniteSets, TLC

VARIABLES
    config,     \* Matcher.config (immutable after Init)
    pc,         \* position of main: "main", "dir", "dret", "ret", "done"
    fi,         \* 1-based index into config.files of the source main is at
    found,      \* main's `found`
    stack,      \* directory entries still to visit (depth first, listing order)
    dfound,     \* search_directory's `found` for the current top-level directory
    result,     \* io::Result<bool> of the last search call
    handle,     \* what the last search call wrote through its stdout handle
    scan,       \* locals of the last search call at its return
    produced,   \* history: some search call evaluated a line it had to report
    diag,       \* diagnostic stream: the sources main reported an error for
    exit_code   \* process exit code, -1 while running

vars == <<config, pc, fi, found, stack, dfound, result, handle, scan, produced,
          diag, exit_code>>

----------------------------------------------------------------------------
(* Bounds *)

MaxLen == 3         \* bytes of content of one source
MaxCount == 2       \* largest -m argument
MaxFlags == 3       \* options given on the command line

----------------------------------------------------------------------------
(* Bytes, contents, the matcher *)

LF == "\n"
Byte == {"a", "b", LF}
Contents == UNION {[1..n -> Byte] : n \in 0..MaxLen}

\* The compiled regex: the literal pattern "a".
Pattern == <<"a">>

\* the literal pattern occurs in line at the 1-based position i
MatchAt(line, i) ==
    /\ i + Len(Pattern) - 1 <= Len(line)
    /\ \A k \in 1..Len(Pattern) : line[i + k - 1] = Pattern[k]

IsMatch(line) == \E i \in 1..Len(line) : MatchAt(line, i)

\* regex.find_iter(line): leftmost non-overlapping spans [start, end), 0-based
RECURSIVE FindFrom(_, _)
FindFrom(line, i) ==
    IF i > Len(line) THEN <<>>
    ELSE IF MatchAt(line, i)
         THEN <<[start |-> i - 1, end |-> i - 1 + Len(Pattern)]>>
              \o FindFrom(line, i + Len(Pattern))
         ELSE FindFrom(line, i + 1)

FindIter(line) == FindFrom(line, 1)

\* &line[from..to], 0-based half-open
Slice(line, from, to) == SubSeq(line, from + 1, to)

----------------------------------------------------------------------------
(* Line segmentation *)

\* content.split(|&b| b == b'\n'): every delimiter ends a piece, and the rest
\* after the last delimiter (possibly empty) is a piece too
RECURSIVE SplitFrom(_, _, _)
SplitFrom(content, i, cur) ==
    IF i > Len(content) THEN <<cur>>
    ELSE IF content[i] = LF
         THEN <<cur>> \o SplitFrom(content, i + 1, <<>>)
         ELSE SplitFrom(content, i + 1, Append(cur, content[i]))

\* search_bytes: .enumerate().map(|(i, line)| (i + 1, line)).collect()
FileLines(content) ==
    LET parts == SplitFrom(content, 1, <<>>)
    IN  [i \in 1..Len(parts) |-> [num |-> i, bytes |-> parts[i]]]

\* BufRead::read_until(b'\n'): the position just after the bytes one call
\* consumes from position i (through the first delimiter, or to the end)
RECURSIVE ReadUntil(_, _)
ReadUntil(content, i) ==
    IF i > Len(content) THEN i
    ELSE IF content[i] = LF THEN i + 1
         ELSE ReadUntil(content, i + 1)

\* reader.split(b'\n') with search_stdin's line_num += 1 per item: an item
\* is what read_until consumed, without its trailing delimiter; the iterator
\* ends when read_until consumes nothing
RECURSIVE StdinFrom(_, _, _)
StdinFrom(content, i, line_num) ==
    IF i > Len(content) THEN <<>>
    ELSE LET j == ReadUntil(content, i)
             buf == SubSeq(content, i, j - 1)
             line == IF buf[Len(buf)] = LF
                     THEN SubSeq(buf, 1, Len(buf) - 1)
                     ELSE buf
         IN  <<[num |-> line_num + 1, bytes |-> line]>>
             \o StdinFrom(content, j, line_num + 1)

StdinLines(content) == StdinFrom(content, 1, 0)

----------------------------------------------------------------------------
(* The report stream: finished lines and the line being written.  A line   *)
(* is the sequence of the fields written to it.                            *)

Fld(k, s, n, b) == [k |-> k, s |-> s, n |-> n, b |-> b]
FileF(name) == Fld("file", name, 0, <<>>)
Colon == Fld("colon", ":", 0, <<>>)
NumF(n) == Fld("num", "", n, <<>>)
OffF(n) == Fld("off", "", n, <<>>)
CountF(n) == Fld("count", "", n, <<>>)
EscF(code) == Fld("esc", code, 0, <<>>)
\* write_all of an empty slice writes nothing
BytesF(b) == IF b = <<>> THEN <<>> ELSE <<Fld("bytes", "", 0, b)>>

NewHandle == [lines |-> <<>>, cur |-> <<>>]
Write(h, fields) == [h EXCEPT !.cur = @ \o fields]
Writeln(h, fields) == [lines |-> Append(h.lines, h.cur \o fields), cur |-> <<>>]

None == [some |-> FALSE, v |-> ""]
Some(x) == [some |-> TRUE, v |-> x]
STDIN_NAME == "(standard input)"

----------------------------------------------------------------------------
(* Output formatter *)

\* the filename-prefix condition of print_match, print_match_bytes and the
\* count line of search_bytes
ShowFilename ==
    config.with_filename \/ (~config.no_filename /\ Len(config.files) > 1)

FilenamePrefix(h, filename) ==
    IF filename.some /\ ShowFilename
    THEN IF config.color
         THEN Write(h, <<EscF("35"), FileF(filename.v), EscF("0"), Colon>>)
         ELSE Write(h, <<FileF(filename.v), Colon>>)
    ELSE h

LineNumberPrefix(h, line_num) ==
    IF config.line_number
    THEN IF config.color
         THEN Write(h, <<EscF("32"), NumF(line_num), EscF("0"), Colon>>)
         ELSE Write(h, <<NumF(line_num), Colon>>)
    ELSE h

\* faulty variant: the delimiter of each earlier line is not counted
RECURSIVE OffsetLoopNoDelimiter(_, _, _, _)
OffsetLoopNoDelimiter(all_lines, i, idx, offset) ==
    IF i >= idx THEN offset
    ELSE OffsetLoopNoDelimiter(all_lines, i + 1, idx,
                               offset + Len(all_lines[i + 1].bytes))

\* for i in 0..idx { offset += all_lines[i].1.len() + 1 }
RECURSIVE OffsetLoop(_, _, _, _)
OffsetLoop(all_lines, i, idx, offset) ==
    IF i >= idx THEN offset
    ELSE OffsetLoop(all_lines, i + 1, idx, offset + Len(all_lines[i + 1].bytes) + 1)

ByteOffsetPrefix(h, idx, all_lines) ==
    IF config.byte_offset
    THEN Write(h, <<OffF(OffsetLoop(all_lines, 0, idx, 0)), Colon>>)
    ELSE h

\* for mat in self.regex.find_iter(line) { ... } of the only-matching branch
RECURSIVE OnlyMatchingLoop(_, _, _, _)
OnlyMatchingLoop(h, line, mats, k) ==
    IF k > Len(mats) THEN h
    ELSE LET span == Slice(line, mats[k].start, mats[k].end)
             h1 == IF config.color
                   THEN Writeln(Write(Write(h, <<EscF("1;31")>>), BytesF(span)),
                                <<EscF("0")>>)
                   ELSE Writeln(Write(h, BytesF(span)), <<>>)
         IN  OnlyMatchingLoop(h1, line, mats, k + 1)

\* the loop of print_colored, `last` carried along
RECURSIVE ColoredLoop(_, _, _, _, _)
ColoredLoop(h, line, mats, k, last) ==
    IF k > Len(mats) THEN [h |-> h, last |-> last]
    ELSE LET h1 == Write(h, BytesF(Slice(line, last, mats[k].start)))
             h2 == Write(h1, <<EscF("1;31")>>)
             h3 == Write(h2, BytesF(Slice(line, mats[k].start, mats[k].end)))
             h4 == Write(h3, <<EscF("0")>>)
         IN  ColoredLoop(h4, line, mats, k + 1, mats[k].end)

PrintColored(h, line) ==
    LET r == ColoredLoop(h, line, FindIter(line), 1, 0)
    IN  Writeln(Write(r.h, BytesF(Slice(line, r.last, Len(line)))), <<>>)

\* the content part shared by print_match and print_match_bytes
PrintBody(h, line) ==
    IF config.only_matching /\ ~config.invert_match
    THEN OnlyMatchingLoop(h, line, FindIter(line), 1)
    ELSE IF config.color /\ ~config.invert_match
         THEN PrintColored(h, line)
         ELSE Writeln(Write(h, BytesF(line)), <<>>)

PrintMatchBytes(h, line, line_num, filename, idx, all_lines) ==
    LET h1 == FilenamePrefix(h, filename)
        h2 == LineNumberPrefix(h1, line_num)
        h3 == ByteOffsetPrefix(h2, idx, all_lines)
    IN  PrintBody(h3, line)

PrintMatch(h, line, line_num, filename, idx, all_lines) ==
    LET h1 == FilenamePrefix(h, filename)
        h2 == LineNumberPrefix(h1, line_num)
        h3 == ByteOffsetPrefix(h2, idx, all_lines)
    IN  PrintBody(h3, line)

----------------------------------------------------------------------------
(* Match evaluator: the line loops of search_stdin and search_bytes *)

\* faulty variant: the cutoff compares with > and lets one more line through
MaxReachedLate(match_count) ==
    config.max_count.some /\ match_count > config.max_count.v

\* if let Some(max) = self.config.max_count { if match_count >= max { break } }
MaxReached(match_count) ==
    config.max_count.some /\ match_count >= config.max_count.v

\* faulty variant: the invert flag is not applied
ShouldPrintRaw(is_match) == is_match

\* let should_print = is_match ^ self.config.invert_match
ShouldPrint(is_match) == is_match # config.invert_match

\* the locals at loop entry; evals counts the is_match calls, rep lists the
\* line numbers for which should_print was true
LoopStart ==
    [idx |-> 0, found |-> FALSE, match_count |-> 0, total_matches |-> 0,
     h |-> NewHandle, returned |-> FALSE, evals |-> 0, rep |-> <<>>]

\* found = true; match_count += 1; total_matches += 1
Reported(st, num) ==
    [st EXCEPT !.found = TRUE, !.match_count = @ + 1, !.total_matches = @ + 1,
               !.evals = @ + 1, !.rep = Append(@, num)]

RECURSIVE BytesLoop(_, _, _)
BytesLoop(st, lines, filename) ==
    IF st.idx >= Len(lines) \/ MaxReached(st.match_count) THEN st
    ELSE LET rec == lines[st.idx + 1]
             should_print == ShouldPrint(IsMatch(rec.bytes))
         IN  IF should_print
             THEN LET st1 == Reported(st, rec.num)
                  IN  IF config.quiet
                      THEN [st1 EXCEPT !.returned = TRUE]
                      ELSE IF config.files_with_matches
                      THEN [st1 EXCEPT !.returned = TRUE,
                                       !.h = Writeln(@, <<FileF(filename)>>)]
                      ELSE BytesLoop(
                             [st1 EXCEPT !.idx = @ + 1,
                                         !.h = IF ~config.count
                                               THEN PrintMatchBytes(@, rec.bytes, rec.num,
                                                        Some(filename), st.idx, lines)
                                               ELSE @],
                             lines, filename)
             ELSE BytesLoop([st EXCEPT !.idx = @ + 1, !.evals = @ + 1],
                            lines, filename)

RECURSIVE StdinLoop(_, _)
StdinLoop(st, lines) ==
    IF st.idx >= Len(lines) \/ MaxReached(st.match_count) THEN st
    ELSE LET rec == lines[st.idx + 1]
             should_print == ShouldPrint(IsMatch(rec.bytes))
         IN  IF should_print
             THEN LET st1 == Reported(st, rec.num)
                  IN  IF config.quiet
                      THEN [st1 EXCEPT !.returned = TRUE]
                      ELSE IF config.files_with_matches
                      THEN [st1 EXCEPT !.returned = TRUE,
                                       !.h = Writeln(@, <<FileF(STDIN_NAME)>>)]
                      ELSE StdinLoop(
                             [st1 EXCEPT !.idx = @ + 1,
                                         !.h = IF ~config.count
                                               THEN PrintMatch(@, rec.bytes, rec.num,
                                                        None, st.idx, lines)
                                               ELSE @],
                             lines)
             ELSE StdinLoop([st EXCEPT !.idx = @ + 1, !.evals = @ + 1], lines)

\* what a search call leaves behind: its return value, its output, its locals
Outcome(kind, name, content, lines, st, value, h) ==
    [result |-> [ok |-> TRUE, v |-> value],
     handle |-> h,
     scan |-> [kind |-> kind, name |-> name, content |-> content, lines |-> lines,
               found |-> st.found, match_count |-> st.match_count,
               total_matches |-> st.total_matches, evals |-> st.evals,
               rep |-> st.rep, returned |-> st.returned]]

\* search_stdin after the lines were read
SearchStdin(content) ==
    LET lines == StdinLines(content)
        st == StdinLoop(LoopStart, lines)
    IN  IF st.returned
        THEN Outcome("stdin", STDIN_NAME, content, lines, st, TRUE, st.h)
        ELSE LET h1 == IF config.count
                       THEN Writeln(st.h, <<CountF(st.total_matches)>>)
                       ELSE st.h
             IN  Outcome("stdin", STDIN_NAME, content, lines, st, st.found, h1)

\* search_bytes
SearchBytes(content, filename) ==
    LET lines == FileLines(content)
        st == BytesLoop(LoopStart, lines, filename)
    IN  IF st.returned
        THEN Outcome("file", filename, content, lines, st, TRUE, st.h)
        ELSE LET h0 == IF ShowFilename
                       THEN Write(st.h, <<FileF(filename), Colon>>)
                       ELSE st.h
                 h1 == IF config.count /\ ~config.quiet
                       THEN Writeln(h0, <<CountF(st.total_matches)>>)
                       ELSE st.h
                 h2 == IF config.files_without_match /\ ~st.found
                       THEN Writeln(h1, <<FileF(filename)>>)
                       ELSE h1
             IN  Outcome("file", filename, content, lines, st, st.found, h2)

----------------------------------------------------------------------------
(* Configuration and environment *)

\* the boolean options of Config::from_args that the engine reads
FlagNames == {"v", "c", "n", "l", "L", "h", "H", "o", "q", "r", "b", "color"}

\* -m: absent, or -m N
MaxCounts == {[some |-> FALSE, v |-> 0]} \cup {[some |-> TRUE, v |-> n] : n \in 0..MaxCount}

\* the file system the paths of the command line name: a regular file f and
\* a directory d holding a sub-directory d/s and a regular file d/f
IsDir(path) == path \in {"d", "d/s"}
IsFile(path) == path \in {"f", "d/f", "d/s/f"}
ReadDir(path) ==
    IF path = "d" THEN <<"d/s", "d/f">>
    ELSE IF path = "d/s" THEN <<"d/s/f">>
    ELSE <<>>

\* if files.is_empty() { files.push("-") }; a "-" argument itself is rejected
\* as an unknown option, so standard input is only ever the sole source
FileLists == {<<"-">>, <<"f">>, <<"d">>, <<"f", "d">>, <<"d", "f">>, <<"f", "f">>}

MkConfig(S, m, files) ==
    [files |-> files,
     invert_match |-> "v" \in S,
     count |-> "c" \in S,
     line_number |-> "n" \in S,
     files_with_matches |-> "l" \in S,
     files_without_match |-> "L" \in S,
     no_filename |-> "h" \in S,
     with_filename |-> "H" \in S,
     only_matching |-> "o" \in S,
     quiet |-> "q" \in S,
     recursive |-> "r" \in S,
     byte_offset |-> "b" \in S,
     color |-> "color" \in S,
     max_count |-> m]

Configs ==
    {MkConfig(S, m, fl) : <<S, m, fl>> \in
        {t \in (SUBSET FlagNames) \X MaxCounts \X FileLists :
            Cardinality(t[1]) + (IF t[2].some THEN 1 ELSE 0) <= MaxFlags}}

----------------------------------------------------------------------------
(* The source driver *)

NoResult == [ok |-> FALSE, v |-> FALSE]
NoScan ==
    [kind |-> "none", name |-> "", content |-> <<>>, lines |-> <<>>,
     found |-> FALSE, match_count |-> 0, total_matches |-> 0, evals |-> 0,
     rep |-> <<>>, returned |-> FALSE]

\* a search call that returned Err before it wrote anything (File::open,
\* Mmap::map or reading a line of standard input failed)
Failed(kind, name) ==
    [result |-> NoResult, handle |-> NewHandle,
     scan |-> [NoScan EXCEPT !.kind = kind, !.name = name]]

\* faulty variant: the result of the latest source replaces the accumulated one
FoldResultLast(acc, res) == IF res.ok THEN res.v ELSE acc

\* Ok(f) => found = found || f; Err(e) => eprintln!(...)
FoldResult(acc, res) == IF res.ok THEN acc \/ res.v ELSE acc

Init ==
    /\ config \in Configs
    /\ pc = "main"
    /\ fi = 1
    /\ found = FALSE
    /\ stack = <<>>
    /\ dfound = FALSE
    /\ result = NoResult
    /\ handle = NewHandle
    /\ scan = NoScan
    /\ produced = FALSE
    /\ diag = <<>>
    /\ exit_code = -1

AtSource == pc = "main" /\ fi <= Len(config.files)

\* a search call returns: its outcome o becomes visible to the caller
Return(o, next) ==
    /\ result' = o.result
    /\ handle' = o.handle
    /\ scan' = o.scan
    /\ produced' = (produced \/ o.scan.rep # <<>>)
    /\ pc' = next

\* main -> search_file("-") -> search_stdin
MainStdin ==
    /\ AtSource
    /\ ~IsDir(config.files[fi])
    /\ config.files[fi] = "-"
    /\ \/ \E c \in Contents : Return(SearchStdin(c), "ret")
       \/ Return(Failed("stdin", STDIN_NAME), "ret")
    /\ UNCHANGED <<config, fi, found, stack, dfound, diag, exit_code>>

\* main -> search_file(path) -> search_bytes
MainFile ==
    /\ AtSource
    /\ ~IsDir(config.files[fi])
    /\ config.files[fi] # "-"
    /\ \/ \E c \in Contents : Return(SearchBytes(c, config.files[fi]), "ret")
       \/ Return(Failed("file", config.files[fi]), "ret")
    /\ UNCHANGED <<config, fi, found, stack, dfound, diag, exit_code>>

\* main -> search_directory(path): read_dir lists the entries, or fails
MainDir ==
    /\ AtSource
    /\ IsDir(config.files[fi])
    /\ \/ /\ stack' = ReadDir(config.files[fi])
          /\ dfound' = FALSE
          /\ pc' = "dir"
          /\ UNCHANGED result
       \/ /\ result' = NoResult
          /\ pc' = "ret"
          /\ UNCHANGED <<stack, dfound>>
    /\ UNCHANGED <<config, fi, found, handle, scan, produced, diag, exit_code>>

\* an entry that is a directory, recursion enabled: its entries come next;
\* an Err of the nested call is dropped by `if let Ok`
DirEntryDir ==
    /\ pc = "dir" /\ stack # <<>>
    /\ IsDir(Head(stack)) /\ config.recursive
    /\ \/ stack' = ReadDir(Head(stack)) \o Tail(stack)
       \/ stack' = Tail(stack)
    /\ UNCHANGED <<config, pc, fi, found, dfound, result, handle, scan, produced,
                   diag, exit_code>>

\* an entry that is a regular file: search_file(entry)
DirEntryFile ==
    /\ pc = "dir" /\ stack # <<>>
    /\ ~(IsDir(Head(stack)) /\ config.recursive)
    /\ IsFile(Head(stack))
    /\ \/ \E c \in Contents : Return(SearchBytes(c, Head(stack)), "dret")
       \/ Return(Failed("file", Head(stack)), "dret")
    /\ stack' = Tail(stack)
    /\ UNCHANGED <<config, fi, found, dfound, diag, exit_code>>

\* if let Ok(result) = ... { found = found || result }
DirEntryRet ==
    /\ pc = "dret"
    /\ dfound' = FoldResult(dfound, result)
    /\ result' = NoResult
    /\ handle' = NewHandle
    /\ scan' = NoScan
    /\ pc' = "dir"
    /\ UNCHANGED <<config, fi, found, stack, produced, diag, exit_code>>

\* any other entry (a directory without -r) is passed over
DirEntrySkip ==
    /\ pc = "dir" /\ stack # <<>>
    /\ ~(IsDir(Head(stack)) /\ config.recursive)
    /\ ~IsFile(Head(stack))
    /\ stack' = Tail(stack)
    /\ UNCHANGED <<config, pc, fi, found, dfound, result, handle, scan, produced,
                   diag, exit_code>>

\* search_directory returns Ok(found)
DirReturn ==
    /\ pc = "dir" /\ stack = <<>>
    /\ result' = [ok |-> TRUE, v |-> dfound]
    /\ pc' = "ret"
    /\ UNCHANGED <<config, fi, found, stack, dfound, handle, scan, produced, diag,
                   exit_code>>

\* main's match on the result, then the next source
MainResult ==
    /\ pc = "ret"
    /\ found' = FoldResult(found, result)
    /\ diag' = IF result.ok THEN diag ELSE Append(diag, config.files[fi])
    /\ fi' = fi + 1
    /\ result' = NoResult
    /\ handle' = NewHandle
    /\ scan' = NoScan
    /\ dfound' = FALSE
    /\ pc' = "main"
    /\ UNCHANGED <<config, stack, produced, exit_code>>

\* process::exit(if found { 0 } else { 1 })
Exit ==
    /\ pc = "main" /\ fi > Len(config.files)
    /\ exit_code' = IF found THEN 0 ELSE 1
    /\ pc' = "done"
    /\ UNCHANGED <<config, fi, found, stack, dfound, result, handle, scan, produced,
                   diag>>

Next ==
    \/ MainStdin
    \/ MainFile
    \/ MainDir
    \/ DirEntryDir
    \/ DirEntryFile
    \/ DirEntryRet
    \/ DirEntrySkip
    \/ DirReturn
    \/ MainResult
    \/ Exit

Spec == Init /\ [][Next]_vars

----------------------------------------------------------------------------
(* Vocabulary of the properties *)

\* a search call has returned Ok and its output and locals are in view
Searched == scan.kind \in {"stdin", "file"} /\ result.ok

\* the line records a source must report: is_match XOR invert_match
MustReport(rec) ==
    \/ IsMatch(rec.bytes) /\ ~config.invert_match
    \/ ~IsMatch(rec.bytes) /\ config.invert_match

ReportedLines(lines) == SelectSeq(lines, MustReport)
Nums(recs) == [k \in 1..Len(recs) |-> recs[k].num]
IsPrefix(s, t) == Len(s) <= Len(t) /\ s = SubSeq(t, 1, Len(s))
Min(a, b) == IF a <= b THEN a ELSE b

\* 0-based position in lines of the record numbered num, plus one
EvalsUpTo(lines, num) == Cardinality({k \in 1..Len(lines) : lines[k].num <= num})

\* an output line splits into its prefixes (through the last colon) and its body
PrefixLen(l) ==
    LET cs == {k \in 1..Len(l) : l[k].k = "colon"}
    IN  IF cs = {} THEN 0 ELSE CHOOSE k \in cs : \A j \in cs : j <= k
PrefixOf(l) == SubSeq(l, 1, PrefixLen(l))
BodyOf(l) == SubSeq(l, PrefixLen(l) + 1, Len(l))

\* the content bytes of a sequence of fields, escape sequences dropped
RECURSIVE Plain(_)
Plain(fields) ==
    IF fields = <<>> THEN <<>>
    ELSE (IF Head(fields).k = "bytes" THEN Head(fields).b ELSE <<>>)
         \o Plain(Tail(fields))

HasEsc(fields) == \E k \in 1..Len(fields) : fields[k].k = "esc"

NormalMode ==
    /\ ~config.quiet /\ ~config.files_with_matches /\ ~config.count
    /\ ~config.files_without_match /\ ~config.only_matching
    /\ ~config.max_count.some

----------------------------------------------------------------------------
(* C1 *)

\* C1 (as stated): in normal mode the lines written for a source are exactly
\* its reported lines, each once, in order and byte for byte unmodified.
C1_Unmodified ==
    (Searched /\ NormalMode) =>
        LET want == ReportedLines(scan.lines)
        IN  /\ Len(handle.lines) = Len(want)
            /\ \A k \in 1..Len(handle.lines) :
                   BodyOf(handle.lines[k]) = BytesF(want[k].bytes)

\* C1 (amended): the loop reports a line iff is_match XOR invert_match, in
\* line order; in normal mode the lines written are exactly the reported
\* lines, each once and in order, and stripping the highlight escape
\* sequences (written only with color on and invert off) gives the line back
\* byte for byte; without them the line is written unmodified.
C1_ReportedLinesWritten ==
    Searched =>
        LET want == ReportedLines(scan.lines)
        IN  /\ IsPrefix(scan.rep, Nums(want))
            /\ NormalMode =>
                 /\ scan.rep = Nums(want)
                 /\ scan.evals = Len(scan.lines)
                 /\ handle.cur = <<>>
                 /\ Len(handle.lines) = Len(want)
                 /\ \A k \in 1..Len(handle.lines) :
                        LET body == BodyOf(handle.lines[k])
                        IN  /\ Plain(body) = want[k].bytes
                            /\ HasEsc(body) => (config.color /\ ~config.invert_match)
                            /\ ~HasEsc(body) => body = BytesF(want[k].bytes)

\* C1 witness: a normal-mode scan that reported two lines and passed over another
C1_Witness ==
    /\ Searched /\ NormalMode
    /\ Len(scan.rep) >= 2
    /\ Len(scan.lines) > Len(scan.rep)
    /\ Len(handle.lines) = 2

----------------------------------------------------------------------------
(* C2 *)

\* what max-count N promises of a scan: the first N reported lines and not
\* one evaluation more, or all of them when there are fewer than N
MaxCountRespected ==
    LET want == ReportedLines(scan.lines)
        n == config.max_count.v
    IN  IF Len(want) >= n
        THEN /\ Len(scan.rep) = n
             /\ scan.rep = Nums(SubSeq(want, 1, n))
             /\ scan.evals = IF n = 0 THEN 0 ELSE EvalsUpTo(scan.lines, want[n].num)
        ELSE scan.rep = Nums(want)

\* C2 (as stated): with max-count N and at least N reported lines exactly N
\* lines are reported, the first N in line order, and no later line is
\* evaluated; with fewer than N all of them are reported.
C2_ExactlyN == (Searched /\ config.max_count.some) => MaxCountRespected

\* C2 (amended): the same, provided neither quiet nor files-with-matches is
\* set (both stop the scan at the first reported line); and when lines are
\* printed whole (no -c, -o, -L) one line is written per reported line.
C2_ExactlyNUnlessFirstMatchStops ==
    (Searched /\ config.max_count.some
        /\ ~config.quiet /\ ~config.files_with_matches) =>
        /\ MaxCountRespected
        /\ (~config.count /\ ~config.only_matching /\ ~config.files_without_match)
              => Len(handle.lines) = Len(scan.rep)

\* C2 witness: N >= 1, more than N reported lines in the source, N reported
\* and printed, the scan stopped before the end
C2_Witness ==
    /\ Searched /\ config.max_count.some
    /\ ~config.quiet /\ ~config.files_with_matches /\ ~config.count
    /\ config.max_count.v >= 1
    /\ Len(ReportedLines(scan.lines)) > config.max_count.v
    /\ Len(scan.rep) = config.max_count.v
    /\ Len(handle.lines) = config.max_count.v
    /\ scan.evals < Len(scan.lines)

----------------------------------------------------------------------------
(* C3 .. C6: the output modes *)

IsCountLine(l) == \E k \in 1..Len(l) : l[k].k = "count"
IsNameLine(l) == Len(l) = 1 /\ l[1].k = "file"
IsPerLine(l) == ~IsCountLine(l) /\ ~IsNameLine(l)
Written(P(_)) == \E k \in 1..Len(handle.lines) : P(handle.lines[k])

\* the scan stopped at its first reported line
StoppedAtFirst ==
    /\ Len(scan.rep) <= 1
    /\ scan.rep # <<>> => scan.evals = EvalsUpTo(scan.lines, scan.rep[1])

\* C3: with quiet set nothing is ever written to the report stream, for a
\* file or standard input, whatever the other flags; the scan stops at the
\* first reported line.
C3_QuietWritesNothing ==
    config.quiet =>
        /\ handle = NewHandle
        /\ Searched => StoppedAtFirst

\* C4: the output of a source is that of one mode, by the priority quiet >
\* files-with-matches > count > files-without-match > normal: per-line
\* output only with none of the four flags set, a count line iff count is set
\* and neither quiet nor files-with-matches, the files-without-match name
\* line iff that flag is the highest set and the scan reported no line.
C4_OneModePerSource ==
    Searched =>
        /\ (Written(IsPerLine) \/ handle.cur # <<>>) =>
               (~config.quiet /\ ~config.files_with_matches /\ ~config.count
                   /\ ~config.files_without_match)
        /\ Written(IsCountLine) <=>
               (config.count /\ ~config.quiet /\ ~config.files_with_matches)
        /\ (Written(IsNameLine) /\ ~scan.found) <=>
               (config.files_without_match /\ ~config.quiet
                   /\ ~config.files_with_matches /\ ~config.count
                   /\ scan.rep = <<>>)

\* the cap of max-count leaves the source a line to report
HasReportedLine(lines) ==
    /\ ReportedLines(lines) # <<>>
    /\ ~(config.max_count.some /\ config.max_count.v = 0)

\* C5: with files-with-matches set and quiet not, a source with a reported
\* line writes exactly one line, its filename (or the standard-input token),
\* at the first reported line, and evaluates nothing after it; a source with
\* no reported line writes nothing at all.
C5_FilesWithMatches ==
    (Searched /\ config.files_with_matches /\ ~config.quiet) =>
        IF HasReportedLine(scan.lines)
        THEN /\ handle = [lines |-> <<<<FileF(scan.name)>>>>, cur |-> <<>>]
             /\ Len(scan.rep) = 1
             /\ StoppedAtFirst
        ELSE handle = NewHandle

\* C6: with count set and neither quiet nor files-with-matches, the output
\* of a source is exactly one line: an optional filename prefix and the
\* number of reported lines (capped by max-count), and no per-line content.
C6_CountLine ==
    (Searched /\ config.count /\ ~config.quiet /\ ~config.files_with_matches) =>
        LET want == ReportedLines(scan.lines)
            n == IF config.max_count.some
                 THEN Min(Len(want), config.max_count.v)
                 ELSE Len(want)
        IN  /\ handle.cur = <<>>
            /\ Len(handle.lines) = 1
            /\ \/ handle.lines[1] = <<CountF(n)>>
               \/ handle.lines[1] = <<FileF(scan.name), Colon, CountF(n)>>

----------------------------------------------------------------------------
(* C7 *)

\* C7: the exit code is 0 iff some source produced a reported line and 1
\* otherwise: the overall result is the OR of the per-source results, a
\* source that fails contributes false, and main still visits every source.
C7_ExitCode ==
    /\ pc \in {"main", "done"} => (found <=> produced)
    /\ pc # "done" => exit_code = -1
    /\ pc = "done" =>
         /\ exit_code = (IF produced THEN 0 ELSE 1)
         /\ fi = Len(config.files) + 1

\* C7 witness: the first source failed, the second was still searched and
\* reported a line, and the process ended with exit code 0
C7_Witness ==
    /\ pc = "done"
    /\ config.files = <<"f", "d">>
    /\ diag = <<"f">>
    /\ exit_code = 0

----------------------------------------------------------------------------
(* C8 *)

\* C8: standard input read line by line yields the same (line number,
\* content) records as the whole-buffer segmenter does for the same bytes.
C8_SameSegmentation ==
    (Searched /\ scan.kind = "stdin") => scan.lines = FileLines(scan.content)

----------------------------------------------------------------------------
(* C9 *)

\* the byte-offset values of a sequence of fields, in the order written
RECURSIVE OffsetsIn(_)
OffsetsIn(fields) ==
    IF fields = <<>> THEN <<>>
    ELSE (IF Head(fields).k = "off" THEN <<Head(fields).n>> ELSE <<>>)
         \o OffsetsIn(Tail(fields))

RECURSIVE Flatten(_)
Flatten(ls) == IF ls = <<>> THEN <<>> ELSE Head(ls) \o Flatten(Tail(ls))

OffsetsWritten == OffsetsIn(Flatten(handle.lines) \o handle.cur)

\* offset in content of the first byte of line num: 0, or just past the
\* (num - 1)th line feed
LineStart(content, num) ==
    LET lfs == {p \in 1..Len(content) : content[p] = LF}
    IN  IF num = 1 THEN 0
        ELSE CHOOSE p \in lfs : Cardinality({q \in lfs : q <= p}) = num - 1

\* a running accumulator updated once per line, as it stands at line k
RECURSIVE Accumulated(_, _)
Accumulated(lines, k) ==
    IF k = 1 THEN 0
    ELSE Accumulated(lines, k - 1) + Len(lines[k - 1].bytes) + 1

\* C9: with byte-offset set the value printed for a reported line is the
\* offset of its first byte in the content of its source, whatever lines
\* were reported before it, and equals the running accumulator at that line.
C9_ByteOffset ==
    Searched =>
        IF config.byte_offset /\ ~config.quiet /\ ~config.files_with_matches
              /\ ~config.count
        THEN /\ Len(OffsetsWritten) = Len(scan.rep)
             /\ \A k \in 1..Len(scan.rep) :
                    /\ OffsetsWritten[k] = LineStart(scan.content, scan.rep[k])
                    /\ OffsetsWritten[k] = Accumulated(scan.lines, scan.rep[k])
        ELSE OffsetsWritten = <<>>

\* C9 witness: invert on, the first reported line is not the first line of
\* the source and its printed offset is past a line of one byte or more
C9_Witness ==
    /\ Searched /\ config.byte_offset /\ config.invert_match
    /\ OffsetsWritten # <<>>
    /\ scan.rep[1] > 1
    /\ OffsetsWritten[1] >= 2

----------------------------------------------------------------------------
(* C10 *)

\* the kinds of the prefix fields of an output line, escape sequences aside
RECURSIVE KindsOf(_)
KindsOf(fields) ==
    IF fields = <<>> THEN <<>>
    ELSE (IF Head(fields).k = "esc" THEN <<>> ELSE <<Head(fields).k>>)
         \o KindsOf(Tail(fields))

FilePrefixDue ==
    config.with_filename \/ (~config.no_filename /\ Len(config.files) > 1)

\* C10: per-line output and the count line carry a filename prefix iff
\* with_filename or (not no_filename and more than one source); standard
\* input uses the token (standard input); the prefixes come in the order
\* filename, line number, byte offset, each followed by a colon.
C10_FilenamePrefix ==
    (Searched /\ ~config.only_matching) =>
        \A k \in 1..Len(handle.lines) :
            LET l == handle.lines[k]
                file == IF FilePrefixDue THEN <<"file", "colon">> ELSE <<>>
                num == IF config.line_number THEN <<"num", "colon">> ELSE <<>>
                off == IF config.byte_offset THEN <<"off", "colon">> ELSE <<>>
            IN  /\ IsCountLine(l) => KindsOf(l) = file \o <<"count">>
                /\ IsPerLine(l) => KindsOf(PrefixOf(l)) = file \o num \o off
                /\ (~IsNameLine(l) /\ FilePrefixDue) =>
                       \E j \in 1..Len(l) : l[j] = FileF(scan.name)

----------------------------------------------------------------------------
(* C11 *)

\* the records only-matching owes for the reported lines: one per span of
\* each line, left to right, in line order
RECURSIVE SpansOwed(_, _)
SpansOwed(lines, nums) ==
    IF nums = <<>> THEN <<>>
    ELSE LET rec == lines[CHOOSE k \in 1..Len(lines) : lines[k].num = Head(nums)]
             mats == FindIter(rec.bytes)
         IN  [j \in 1..Len(mats) |->
                 [num |-> rec.num,
                  bytes |-> Slice(rec.bytes, mats[j].start, mats[j].end)]]
             \o SpansOwed(lines, Tail(nums))

\* the prefix set enabled for a per-line record of the source in view (the
\* filename prefix is asked of file sources only)
PrefixDue ==
    (IF scan.kind = "file" /\ FilePrefixDue THEN <<"file", "colon">> ELSE <<>>)
    \o (IF config.line_number THEN <<"num", "colon">> ELSE <<>>)
    \o (IF config.byte_offset THEN <<"off", "colon">> ELSE <<>>)

PerLineOutput == ~config.quiet /\ ~config.files_with_matches /\ ~config.count

\* C11: with only-matching set and invert off a reported line with K spans
\* yields K records, left to right, each holding only its span's bytes and
\* each carrying the full prefix set; with invert on the whole line is
\* written once instead.
C11_OnlyMatching ==
    (Searched /\ config.only_matching /\ PerLineOutput
        /\ ~config.files_without_match) =>
        IF ~config.invert_match
        THEN LET owed == SpansOwed(scan.lines, scan.rep)
             IN  /\ handle.cur = <<>>
                 /\ Len(handle.lines) = Len(owed)
                 /\ \A k \in 1..Len(handle.lines) :
                        /\ Plain(BodyOf(handle.lines[k])) = owed[k].bytes
                        /\ KindsOf(PrefixOf(handle.lines[k])) = PrefixDue
        ELSE /\ handle.cur = <<>>
             /\ Len(handle.lines) = Len(scan.rep)
             /\ \A k \in 1..Len(handle.lines) :
                    LET rec == scan.lines[CHOOSE i \in 1..Len(scan.lines) :
                                              scan.lines[i].num = scan.rep[k]]
                    IN  /\ BodyOf(handle.lines[k]) = BytesF(rec.bytes)
                        /\ KindsOf(PrefixOf(handle.lines[k])) = PrefixDue

\* the same without the demand that every record carries the prefixes: the
\* records are the spans, in order, with nothing around them
C11_SpansOnly ==
    (Searched /\ config.only_matching /\ ~config.invert_match /\ PerLineOutput
        /\ ~config.files_without_match) =>
        LET owed == SpansOwed(scan.lines, scan.rep)
        IN  /\ Len(handle.lines) = Len(owed)
            /\ \A k \in 1..Len(handle.lines) :
                   Plain(BodyOf(handle.lines[k])) = owed[k].bytes

====
